---------------------------- MODULE Spec2Model ----------------------------
(***************************************************************************)
(* GitHub organisation backup tool (src/backup_org.py).                    *)
(*                                                                         *)
(* The model follows GitHubOrgBackup.run_backup: the paginated listing of  *)
(* the source organisation, the include/exclude filter, the dry-run        *)
(* report, the thread pool of backup_repository jobs and the aggregation   *)
(* of their results.  Strings are sequences of tokens, so that prefixing,  *)
(* startswith and substring tests are computed.  The environment (the two  *)
(* GitHub organisations, the file system, the process-wide working         *)
(* directory and the clock) is part of the state.                          *)
(***************************************************************************)
EXTENDS Integers, Sequences, FiniteSets, TLC

VARIABLES
    repo_prefix,   \* self.repo_prefix, fixed by __init__
    stats,         \* self.stats
    mainPc,        \* position of run_backup
    page,          \* get_repositories: page
    repos,         \* get_repositories: repos, then the filtered list
    dry_run,       \* argument of run_backup
    report,        \* the dry-run lines "name -> dest_name" that were logged
    jobs,          \* one record per submitted future (backup_repository call)
    collected,     \* futures already consumed by the as_completed loop
    srcRepos,      \* source organisation: its repository descriptors
    destRepos,     \* destination organisation: names of existing repositories
    fs,            \* file system: the directories git has produced
    cwd,           \* the process-wide current working directory
    now,           \* the clock, in ticks
    faults,        \* failures the environment may still inject
    requests,      \* pages requested from the source listing, in order
    include_only,  \* argument of run_backup (empty for None)
    exclude_repos, \* argument of run_backup
    earlier,       \* what the earlier runs of the tool ended with
    tool,          \* cleanup_backups.py: the state of GitHubCleanup.cleanup_backups
    orgRepos,      \* cleanup_backups.py: the organisation's descriptors on the host
    deletes        \* cleanup_backups.py: the DELETE requests made, with their status

\* the variables of the cleanup tool
toolVars == <<tool, orgRepos, deletes>>

vars == <<tool, orgRepos, deletes, earlier, repo_prefix, stats, mainPc, page, repos, dry_run, report, jobs,
          collected, srcRepos, destRepos, fs, cwd, now, faults, requests,
          include_only, exclude_repos>>

-----------------------------------------------------------------------------
(* Bounds of the model *)

MaxRepos == 2          \* repositories of the source organisation (run model)
Workers == 2           \* self.workers
MaxFaults == 1         \* injected failures per run
TicksPerSecond == 2    \* clock ticks in one second (scaled)
SecondsPerDay == 2     \* seconds in one day (scaled)
BigOrgExtra == 20      \* size of the last page of the large listing
ManyExtra == 2         \* branches of the large mirror beyond one full batch
MaxPushFaults == 3     \* pushes that fail or time out in the push model
MaxListFaults == 4     \* injected failures per listing (listing model)
MaxRuns == 2           \* runs of the tool, one after the other
CleanupExtra == 5      \* size of the last page of the cleanup tool's listing
MaxCleanupFaults == 2  \* injected failures per run of the cleanup tool

(* Program constants *)

PerPage == 100         \* per_page
BatchSize == 50        \* batch_size
RetryTotal == 3        \* Retry(total=3) of the sessions

-----------------------------------------------------------------------------
(* Strings as token sequences *)

Min(a, b) == IF a < b THEN a ELSE b

StartsWith(s, p) == Len(s) >= Len(p) /\ SubSeq(s, 1, Len(p)) = p

Contains(s, p) ==
    \E i \in 0..(Len(s) - Len(p)) : SubSeq(s, i + 1, i + Len(p)) = p

\* [F(x) for x in s]
SeqMap(F(_), s) == [i \in 1..Len(s) |-> F(s[i])]

\* [x for x in s if P(x)]: the kept elements, in their order (the sequence
\* is halved, which keeps the evaluation shallow on long listings)
RECURSIVE SeqFilter(_, _)
SeqFilter(P(_), s) ==
    IF Len(s) = 0 THEN <<>>
    ELSE IF Len(s) = 1 THEN (IF P(s[1]) THEN s ELSE <<>>)
    ELSE LET half == Len(s) \div 2 IN
         SeqFilter(P, SubSeq(s, 1, half)) \o SeqFilter(P, SubSeq(s, half + 1, Len(s)))

Range(s) == {s[i] : i \in 1..Len(s)}

PullPrefix == <<"refs/", "pull/">>

-----------------------------------------------------------------------------
(* The source organisation *)

NameA == <<"a">>
NameB == <<"b">>
SmallNames == {NameA, NameB}

Descriptor(n) == [name |-> n, private |-> (n = NameB)]

\* the listings of the run model: the empty one, and MaxRepos repositories
\* of which the first m share a name
SmallOrgs ==
    {<<>>} \cup {[i \in 1..MaxRepos |-> Descriptor(IF i <= m THEN NameA ELSE NameB)] :
                  m \in 1..MaxRepos}

\* one repository more than that, to keep the pool busy
CrowdedOrg ==
    [i \in 1..(MaxRepos + 1) |-> Descriptor(IF i = 2 THEN NameB ELSE NameA)]

\* a listing of k repositories with distinct names
BigOrg(k) == [i \in 1..k |-> [name |-> <<"r", ToString(i)>>, private |-> FALSE]]

BigOrgs == {BigOrg(PerPage + BigOrgExtra), BigOrg(2 * PerPage), BigOrg(3)}

\* what the host answers for page p of the listing
ServerPage(org, p) ==
    SubSeq(org, (p - 1) * PerPage + 1, Min(p * PerPage, Len(org)))

\* repositories of the push model: one with more branches than a batch holds,
\* one without a ref, one with pull-request refs only
NameMany == <<"m">>
NameEmpty == <<"e">>
NamePulls == <<"p">>

Branch(i) == <<"refs/", "heads/", "b", ToString(i)>>

\* a branch whose own name holds the text refs/pull/
OddBranch == <<"refs/", "heads/", "refs/", "pull/", "x">>

PullRef(i) == <<"refs/", "pull/", ToString(i), "/head">>

\* BatchSize + ManyExtra branches, the last of them the odd one, followed by
\* two pull-request refs, as git for-each-ref lists them
ManyRefs ==
    [i \in 1..(BatchSize + ManyExtra + 2) |->
        IF i < BatchSize + ManyExtra THEN Branch(i)
        ELSE IF i = BatchSize + ManyExtra THEN OddBranch
        ELSE PullRef(i - BatchSize - ManyExtra)]

\* refs of the mirror of a source repository
RefsOf(n) ==
    IF n = NameA THEN << <<"refs/", "heads/", "main">> >>
    ELSE IF n = NameB THEN << <<"refs/", "heads/", "dev">>,
                              <<"refs/", "pull/", "1/", "head">> >>
    ELSE IF n = NameMany THEN ManyRefs
    ELSE IF n = NameEmpty THEN <<>>
    ELSE IF n = NamePulls THEN <<PullRef(1), PullRef(2)>>
    ELSE << <<"refs/", "heads/", "main">> >>

-----------------------------------------------------------------------------
(* Naming policy *)

UnixSeconds(t) == t \div TicksPerSecond

\* datetime.now().strftime("%Y%m%d-")
StrfDate(t) == <<ToString(20261102 + (UnixSeconds(t) \div SecondsPerDay)), "-">>

\* __init__: the prefix is composed once
InitPrefix(prefixArg, include_date_prefix, t) ==
    IF include_date_prefix THEN StrfDate(t) \o prefixArg ELSE prefixArg

\* a name whose date prefix is formatted again at every call
NameWithDateOfCall(original_name) == StrfDate(now) \o original_name

\* get_dest_repo_name
GetDestRepoName(original_name) == repo_prefix \o original_name


-----------------------------------------------------------------------------
(* File system and working directory *)

\* the directory the process is started in
StartDir == <<>>

\* a directory exists if it is the start directory or git produced it or
\* something below it
Exists(p) == p = StartDir \/ \E e \in fs : StartsWith(e.path, p)

\* the entry of the file system at exactly p, if git produced one
EntriesAt(p) == {e \in fs : e.path = p}

\* shutil.rmtree(p): p and everything below it
RmTree(p) == {e \in fs : ~StartsWith(e.path, p)}

-----------------------------------------------------------------------------
(* Initial state: the object after __init__, before run_backup *)

NoStats == [total_repos |-> 0, successful |-> 0, failed |-> 0, skipped |-> 0]

\* constructor arguments and the destination organisation before the run
PlainSetup == [prefix |-> <<>>, include_date_prefix |-> FALSE, existing |-> {}]
DatedSetup == [prefix |-> <<"bk-">>, include_date_prefix |-> TRUE, existing |-> {NameA}]
Setups == {PlainSetup, DatedSetup}

\* arguments of run_backup
NoFilter == [include_only |-> {}, exclude_repos |-> {}]
FilterArgs == {NoFilter,
               [include_only |-> {NameA}, exclude_repos |-> {}],
               [include_only |-> {}, exclude_repos |-> {NameA}],
               [include_only |-> {NameA, NameB}, exclude_repos |-> {NameA}]}

\* the cleanup tool is a program of its own: it is not running
NotStarted ==
    [pc |-> "off", prefix |-> <<>>, dry_run |-> FALSE, page |-> 1, repos |-> <<>>,
     confirm |-> "", k |-> 0, successful |-> 0, failed |-> 0, failed_page |-> 0]

InitEnv(orgs, setups, filters, modes, budget) ==
    /\ srcRepos \in orgs
    /\ now = 0
    /\ \E setup \in setups :
         /\ repo_prefix = InitPrefix(setup.prefix, setup.include_date_prefix, now)
         /\ destRepos = {repo_prefix \o n : n \in setup.existing}
    /\ \E f \in filters :
         /\ include_only = f.include_only
         /\ exclude_repos = f.exclude_repos
    /\ dry_run \in modes
    /\ faults = budget
    /\ fs = {}
    /\ cwd = StartDir
    /\ stats = NoStats
    /\ mainPc = "list"
    /\ page = 1
    /\ repos = <<>>
    /\ report = <<>>
    /\ jobs = <<>>
    /\ collected = {}
    /\ requests = <<>>
    /\ earlier = <<>>
    /\ tool = NotStarted
    /\ orgRepos = <<>>
    /\ deletes = <<>>

\* runs over the small listings with failures injected, and a failure-free
\* run with more repositories than workers
Init ==
    \/ InitEnv(SmallOrgs, Setups, FilterArgs, BOOLEAN, MaxFaults)
    \/ InitEnv({CrowdedOrg}, {PlainSetup}, {NoFilter}, {FALSE}, 0)

-----------------------------------------------------------------------------
(* get_repositories *)

Request(p, outcome) == [page |-> p, outcome |-> outcome]

\* run_backup's handlers once get_repositories has raised: nothing was
\* assigned to repos, the exception is logged and re-raised
ListingRaised ==
    /\ repos' = <<>>
    /\ mainPc' = "raised"

\* a loop that takes a page shorter than per_page for the end of the listing
ListPageStopsAtShortPage ==
    /\ mainPc = "list"
    /\ LET page_repos == ServerPage(srcRepos, page) IN
       IF Len(page_repos) < PerPage
       THEN /\ mainPc' = "filter"
            /\ requests' = Append(requests, Request(page, "empty"))
            /\ UNCHANGED <<page, repos>>
       ELSE /\ repos' = repos \o page_repos
            /\ page' = page + 1
            /\ requests' = Append(requests, Request(page, "ok"))
            /\ UNCHANGED mainPc
    /\ UNCHANGED <<toolVars, earlier, repo_prefix, stats, dry_run, report, jobs, collected,
                   srcRepos, destRepos, fs, cwd, now, faults,
                   include_only, exclude_repos>>

\* a 200 answer: a non-empty page is appended and the next page requested,
\* an empty page ends the loop
ListPage ==
    /\ mainPc = "list"
    /\ LET page_repos == ServerPage(srcRepos, page) IN
       IF page_repos = <<>>
       THEN /\ mainPc' = "filter"
            /\ requests' = Append(requests, Request(page, "empty"))
            /\ UNCHANGED <<page, repos>>
       ELSE /\ repos' = repos \o page_repos
            /\ page' = page + 1
            /\ requests' = Append(requests, Request(page, "ok"))
            /\ UNCHANGED mainPc
    /\ UNCHANGED <<toolVars, earlier, repo_prefix, stats, dry_run, report, jobs, collected,
                   srcRepos, destRepos, fs, cwd, now, faults,
                   include_only, exclude_repos>>

\* time.sleep(wait_time): a negative argument raises ValueError
SleepRaises(wait_time) == wait_time < 0

\* a 403 answer with X-RateLimit-Remaining: 0
ListRateLimited ==
    /\ mainPc = "list"
    /\ faults > 0
    /\ faults' = faults - 1
    /\ \E reset_time \in (UnixSeconds(now) - 2)..(UnixSeconds(now) + 1) :
         LET wait_time == reset_time - UnixSeconds(now) + 1 IN
         IF SleepRaises(wait_time)
         THEN /\ ListingRaised
              /\ requests' = Append(requests, Request(page, "sleep_error"))
              /\ UNCHANGED <<page, now>>
         ELSE /\ now' = now + wait_time * TicksPerSecond
              /\ requests' = Append(requests, Request(page, "rate_limit"))
              /\ UNCHANGED <<page, repos, mainPc>>
    /\ UNCHANGED <<toolVars, earlier, repo_prefix, stats, dry_run, report, jobs, collected,
                   srcRepos, destRepos, fs, cwd, include_only, exclude_repos>>

\* a handler that ends the loop and returns what was fetched so far
ListErrorKeepsPartial ==
    /\ mainPc = "list"
    /\ faults > 0
    /\ faults' = faults - 1
    /\ mainPc' = "filter"
    /\ requests' = Append(requests, Request(page, "error"))
    /\ UNCHANGED <<toolVars, earlier, repo_prefix, stats, page, repos, dry_run, report, jobs,
                   collected, srcRepos, destRepos, fs, cwd, now, include_only,
                   exclude_repos>>

\* any other failure: a 403 that is no exhausted quota, an error status
\* (raise_for_status) or a transport error
ListError ==
    /\ mainPc = "list"
    /\ faults > 0
    /\ faults' = faults - 1
    /\ ListingRaised
    /\ requests' = Append(requests, Request(page, "error"))
    /\ UNCHANGED <<toolVars, earlier, repo_prefix, stats, page, dry_run, report, jobs, collected,
                   srcRepos, destRepos, fs, cwd, now, include_only,
                   exclude_repos>>

-----------------------------------------------------------------------------
(* run_backup: filter, dry run, dispatch *)


\* a filter in which the include-only set overrides the exclude set
IncludeOverridesExclude(r) ==
    IF include_only # {}
    THEN r.name \in include_only
    ELSE r.name \notin exclude_repos

\* lines 381-385: kept by both list comprehensions

PassesFilter(r) ==
    /\ (include_only # {} => r.name \in include_only)
    /\ r.name \notin exclude_repos

\* the two list comprehensions of run_backup
Filtered(rs) == SeqFilter(PassesFilter, rs)

ReportLine(r) == [name |-> r.name, dest_name |-> GetDestRepoName(r.name)]

\* the state of a future that executor.submit has queued
NewJob(r) ==
    [repo |-> r, pc |-> "queued", outcome |-> "none", timestamp |-> -1,
     clone_path |-> <<>>, original_cwd |-> <<>>,
     valid_refs |-> <<>>, i |-> 0, k |-> 0, failed_refs |-> <<>>,
     ret |-> FALSE, success |-> FALSE,
     last |-> [step |-> "submit", ok |-> TRUE, dest_name |-> <<>>, answer |-> ""],
     pushes |-> <<>>, enum_dirs |-> <<>>, get_refs_returncode |-> -1,
     posts |-> 0, errors |-> <<>>]

\* a dry run that falls through to the executor after its report
DryRunFallsThrough ==
    /\ mainPc = "filter"
    /\ dry_run
    /\ repos' = Filtered(repos)
    /\ stats' = [stats EXCEPT !.total_repos = Len(repos')]
    /\ report' = SeqMap(ReportLine, repos')
    /\ jobs' = SeqMap(NewJob, repos')
    /\ mainPc' = "pool"
    /\ UNCHANGED <<toolVars, earlier, repo_prefix, page, dry_run, collected, srcRepos,
                   destRepos, fs, cwd, now, faults, requests, include_only,
                   exclude_repos>>

\* a dry run that returns before the total is recorded
DryRunBeforeTotal ==
    /\ mainPc = "filter"
    /\ dry_run
    /\ repos' = Filtered(repos)
    /\ report' = SeqMap(ReportLine, repos')
    /\ mainPc' = "returned"
    /\ UNCHANGED <<toolVars, earlier, repo_prefix, stats, page, dry_run, jobs, collected,
                   srcRepos, destRepos, fs, cwd, now, faults, requests,
                   include_only, exclude_repos>>

\* dry_run: the intended names are logged and run_backup returns
DryRun ==
    /\ mainPc = "filter"
    /\ dry_run
    /\ repos' = Filtered(repos)
    /\ stats' = [stats EXCEPT !.total_repos = Len(repos')]
    /\ report' = SeqMap(ReportLine, repos')
    /\ mainPc' = "returned"
    /\ UNCHANGED <<toolVars, earlier, repo_prefix, page, dry_run, jobs, collected, srcRepos,
                   destRepos, fs, cwd, now, faults, requests, include_only,
                   exclude_repos>>

\* otherwise every filtered repository is submitted to the executor

\* a dispatch that counts the repositories the filters removed as skipped
DispatchCountsSkipped ==
    /\ mainPc = "filter"
    /\ ~dry_run
    /\ repos' = Filtered(repos)
    /\ stats' = [stats EXCEPT !.total_repos = Len(repos'),
                              !.skipped = Len(repos) - Len(repos')]
    /\ jobs' = SeqMap(NewJob, repos')
    /\ mainPc' = "pool"
    /\ UNCHANGED <<toolVars, earlier, repo_prefix, page, dry_run, report, collected, srcRepos,
                   destRepos, fs, cwd, now, faults, requests, include_only,
                   exclude_repos>>

Dispatch ==
    /\ mainPc = "filter"
    /\ ~dry_run
    /\ repos' = Filtered(repos)
    /\ stats' = [stats EXCEPT !.total_repos = Len(repos')]
    /\ jobs' = SeqMap(NewJob, repos')
    /\ mainPc' = "pool"
    /\ UNCHANGED <<toolVars, earlier, repo_prefix, page, dry_run, report, collected, srcRepos,
                   destRepos, fs, cwd, now, faults, requests, include_only,
                   exclude_repos>>

-----------------------------------------------------------------------------
(* The thread pool *)

JobIds == 1..Len(jobs)

Running == {j \in JobIds : jobs[j].pc \notin {"queued", "done"}}

\* what the job's step leaves alone besides jobs
JobFrame == <<toolVars, earlier, repo_prefix, stats, mainPc, page, repos, dry_run, report,
              collected, srcRepos, requests, include_only, exclude_repos>>

\* a pool that starts a thread for every submitted work item
StartJobUnbounded(j) ==
    /\ j \in JobIds
    /\ mainPc = "pool"
    /\ jobs[j].pc = "queued"
    /\ \A h \in 1..(j - 1) : jobs[h].pc # "queued"
    /\ jobs' = [jobs EXCEPT ![j].pc = "alloc"]
    /\ UNCHANGED <<JobFrame, destRepos, fs, cwd, now, faults>>

\* a free worker takes the oldest queued work item
StartJob(j) ==
    /\ j \in JobIds
    /\ mainPc = "pool"
    /\ jobs[j].pc = "queued"
    /\ \A h \in 1..(j - 1) : jobs[h].pc # "queued"
    /\ Cardinality(Running) < Workers
    /\ jobs' = [jobs EXCEPT ![j].pc = "alloc"]
    /\ UNCHANGED <<JobFrame, destRepos, fs, cwd, now, faults>>

\* the future's result: backup_repository returned b
Return(job, b) ==
    [job EXCEPT !.pc = "done", !.outcome = IF b THEN "True" ELSE "False"]

\* the job's latest call of the pipeline and its result; posts counts the
\* creation requests (line 181) the job has sent
Call(job, name, ok, dest_name, answer) ==
    [job EXCEPT !.last = [step |-> name, ok |-> ok,
                          dest_name |-> dest_name, answer |-> answer],
                !.posts = IF name = "create" THEN @ + 1 ELSE @]

Step(job, name, ok) == Call(job, name, ok, <<>>, "")

-----------------------------------------------------------------------------
(* backup_repository *)

\* hash(repo_name) % 10000: some function of the name; this one sends the
\* small names to one value, so the hash never tells two jobs apart
Hash(n) == Len(n) % 10000

Pid == "pid"

\* f"{repo_name}-{timestamp}-{pid}-{hash}.git" below clone_dir
CloneName(n, timestamp) ==
    [name |-> n, timestamp |-> timestamp, pid |-> Pid, hash |-> Hash(n)]

\* shutil.rmtree guarded by clone_path.exists(); the removal may fail
RemoveTree(p) ==
    IF Exists(p)
    THEN \/ fs' = RmTree(p) /\ faults' = faults
         \/ faults > 0 /\ fs' = fs /\ faults' = faults - 1
    ELSE UNCHANGED <<fs, faults>>

\* int(time.time() * 1000000): the clock has advanced since the latest
\* reading of another job, or it has not
ClockReadings ==
    IF \E h \in JobIds : jobs[h].timestamp = now THEN {now, now + 1} ELSE {now}

\* lines 314-320: the working path is derived from the clock and from
\* clone_dir.absolute(), which reads the working directory and raises, before
\* the try block is entered, when that directory is gone
AllocPath(j) ==
    /\ j \in JobIds
    /\ jobs[j].pc = "alloc"
    /\ \E timestamp \in ClockReadings :
         /\ now' = timestamp
         /\ IF Exists(cwd)
            THEN jobs' = [jobs EXCEPT ![j].pc = "mkdir",
                            ![j].timestamp = timestamp,
                            ![j].clone_path =
                                Append(cwd, CloneName(jobs[j].repo.name, timestamp))]
            ELSE jobs' = [jobs EXCEPT ![j].pc = "done",
                                      ![j].timestamp = timestamp,
                                      ![j].outcome = "exception"]
    /\ UNCHANGED <<JobFrame, destRepos, fs, cwd, faults>>

\* line 324: clone_dir.mkdir relative to the working directory; its failure
\* is taken by the handler of lines 357-365
MakeCloneDir(j) ==
    /\ j \in JobIds
    /\ jobs[j].pc = "mkdir"
    /\ IF Exists(cwd)
       THEN /\ jobs' = [jobs EXCEPT ![j].pc = "exists"]
            /\ UNCHANGED <<fs, faults>>
       ELSE /\ jobs' = [jobs EXCEPT ![j] = Return(Step(@, "mkdir", FALSE), FALSE)]
            /\ RemoveTree(jobs[j].clone_path)
    /\ UNCHANGED <<JobFrame, destRepos, cwd, now>>

\* repository_exists: True only for a 200 answer, False for any other status
\* and for a RequestException
ExistsResult(answer) == answer = "200"

\* a job that gives up when the lookup itself failed
AfterExistsGivesUp(job, answer) ==
    LET found == ExistsResult(answer)
        called == Call(job, "exists", found, GetDestRepoName(job.repo.name), answer)
    IN  IF answer \in {"200", "404"}
        THEN [called EXCEPT !.pc = IF found THEN "clone" ELSE "create"]
        ELSE Return(called, FALSE)


\* a job that requests the creation whatever the lookup returned
AfterExistsAlwaysCreates(job, answer) ==
    LET found == ExistsResult(answer)
        called == Call(job, "exists", found, GetDestRepoName(job.repo.name), answer)
    IN  [called EXCEPT !.pc = "create"]

\* line 326: the creation is requested unless the lookup returned True
AfterExists(job, answer) ==
    LET found == ExistsResult(answer)
        called == Call(job, "exists", found, GetDestRepoName(job.repo.name), answer)
    IN  [called EXCEPT !.pc = IF found THEN "clone" ELSE "create"]

RepositoryExists(j) ==
    /\ j \in JobIds
    /\ jobs[j].pc = "exists"
    /\ jobs' = [jobs EXCEPT ![j] =
                  AfterExists(@, IF GetDestRepoName(@.repo.name) \in destRepos
                                 THEN "200" ELSE "404")]
    /\ UNCHANGED <<JobFrame, destRepos, fs, cwd, now, faults>>

\* the lookup fails: an error status or a transport error
RepositoryExistsFails(j) ==
    /\ j \in JobIds
    /\ jobs[j].pc = "exists"
    /\ faults > 0
    /\ faults' = faults - 1
    /\ \E answer \in {"403", "500", "transport error"} :
         jobs' = [jobs EXCEPT ![j] = AfterExists(@, answer)]
    /\ UNCHANGED <<JobFrame, destRepos, fs, cwd, now>>

\* a create_repository for which only 201 is a success
OnlyCreated(answer) == answer = "201"

\* create_repository's value for an answer of the host
CreateResult(answer) == answer \in {"201", "422 already exists"}


\* a job that goes on to the clone whatever create_repository returned
AfterCreateGoesOn(job, answer) ==
    LET ok == CreateResult(answer)
        called == Call(job, "create", ok, GetDestRepoName(job.repo.name), answer)
    IN  [called EXCEPT !.pc = "clone"]

\* lines 327-329: a refused creation ends the job

AfterCreate(job, answer) ==
    LET ok == CreateResult(answer)
        called == Call(job, "create", ok, GetDestRepoName(job.repo.name), answer)
    IN  IF ok THEN [called EXCEPT !.pc = "clone"] ELSE Return(called, FALSE)

\* the POST is answered 201, or 422 "already exists" when the name is taken
CreateRepository(j) ==
    /\ j \in JobIds
    /\ jobs[j].pc = "create"
    /\ LET dest_name == GetDestRepoName(jobs[j].repo.name) IN
       IF dest_name \in destRepos
       THEN /\ jobs' = [jobs EXCEPT ![j] = AfterCreate(@, "422 already exists")]
            /\ UNCHANGED destRepos
       ELSE /\ jobs' = [jobs EXCEPT ![j] = AfterCreate(@, "201")]
            /\ destRepos' = destRepos \cup {dest_name}
    /\ UNCHANGED <<JobFrame, fs, cwd, now, faults>>

\* any other answer: another validation error, another status, no answer
CreateRepositoryFails(j) ==
    /\ j \in JobIds
    /\ jobs[j].pc = "create"
    /\ faults > 0
    /\ faults' = faults - 1
    /\ \E answer \in {"422 other", "500", "transport error"} :
         jobs' = [jobs EXCEPT ![j] = AfterCreate(@, answer)]
    /\ UNCHANGED <<JobFrame, destRepos, fs, cwd, now>>

\* clone_repository: git clone --mirror ends with status 0 and leaves a
\* mirror; git refuses a target that is already there
CloneRepository(j) ==
    /\ j \in JobIds
    /\ jobs[j].pc = "clone"
    /\ IF Exists(jobs[j].clone_path)
       THEN /\ jobs' = [jobs EXCEPT ![j] = Return(Step(@, "clone", FALSE), FALSE)]
            /\ UNCHANGED fs
       ELSE /\ jobs' = [jobs EXCEPT ![j] = [Step(@, "clone", TRUE) EXCEPT !.pc = "verify"]]
            /\ fs' = fs \cup {[path |-> jobs[j].clone_path, kind |-> "mirror",
                               repo |-> jobs[j].repo.name]}
    /\ UNCHANGED <<JobFrame, destRepos, cwd, now, faults>>

\* git clone fails and removes what it wrote, or exceeds the timeout and is
\* killed, leaving a partial directory
CloneRepositoryFails(j) ==
    /\ j \in JobIds
    /\ jobs[j].pc = "clone"
    /\ faults > 0
    /\ faults' = faults - 1
    /\ \E answer \in {"128", "timeout"} :
         jobs' = [jobs EXCEPT ![j] =
                    Return(Call(@, "clone", FALSE, <<>>, answer), FALSE)]
    /\ \/ UNCHANGED fs
       \/ /\ ~Exists(jobs[j].clone_path)
          /\ fs' = fs \cup {[path |-> jobs[j].clone_path, kind |-> "partial",
                             repo |-> jobs[j].repo.name]}
    /\ UNCHANGED <<JobFrame, destRepos, cwd, now>>

\* lines 336-343: the path exists and holds refs and objects
IsMirror(p) == \E e \in EntriesAt(p) : e.kind = "mirror"


\* a job that calls push_repository without looking at the working path
VerifyCloneSkipped(j) ==
    /\ j \in JobIds
    /\ jobs[j].pc = "verify"
    /\ jobs' = [jobs EXCEPT ![j] = [Step(@, "verify", TRUE) EXCEPT !.pc = "push"]]
    /\ UNCHANGED <<JobFrame, destRepos, fs, cwd, now, faults>>

VerifyClone(j) ==
    /\ j \in JobIds
    /\ jobs[j].pc = "verify"
    /\ jobs' = [jobs EXCEPT ![j] =
                  IF Exists(@.clone_path) /\ IsMirror(@.clone_path)
                  THEN [Step(@, "verify", TRUE) EXCEPT !.pc = "push"]
                  ELSE Return(Step(@, "verify", FALSE), FALSE)]
    /\ UNCHANGED <<JobFrame, destRepos, fs, cwd, now, faults>>

-----------------------------------------------------------------------------
(* push_repository *)

\* the mirror git finds in the working directory, if there is one
MirrorAt(dir) == {e \in EntriesAt(dir) : e.kind = "mirror"}

\* stdout.strip().split('\n'): one name per ref, one empty name for no output
AllRefs(refs) == IF refs = <<>> THEN << <<>> >> ELSE refs

\* a filter that only drops the empty name
KeepsPullRefs(ref) == ref # <<>>


IsValidRef(ref) == ref # <<>> /\ ~StartsWith(ref, PullPrefix)

\* line 263
ValidRefs(all_refs) == SeqFilter(IsValidRef, all_refs)

\* f"{ref}:{ref}"
RefSpec(ref) == [src |-> ref, dst |-> ref]


\* a slice that takes one ref more than batch_size
BatchRefsInclusive(job) ==
    SubSeq(job.valid_refs, job.i + 1, Min(job.i + BatchSize + 1, Len(job.valid_refs)))

\* valid_refs[i:i + batch_size]
BatchRefs(job) ==
    SubSeq(job.valid_refs, job.i + 1, Min(job.i + BatchSize, Len(job.valid_refs)))

\* git push run in directory dir with these refspecs
Invocation(kind, refs, dir, dest_name, rc) ==
    [kind |-> kind, refspecs |-> SeqMap(RefSpec, refs), dir |-> dir,
     dest_name |-> dest_name, rc |-> rc]

Pushed(job, kind, refs, rc) ==
    [job EXCEPT !.pushes =
        Append(@, Invocation(kind, refs, cwd, GetDestRepoName(job.repo.name), rc))]

\* git can push refs only from a mirror that holds them
CanPush(refs) ==
    \E e \in MirrorAt(cwd) : Range(refs) \subseteq Range(RefsOf(e.repo))

\* push_repository returns b without having changed directory
PushReturns(job, b) ==
    [Step(job, "push", b) EXCEPT !.pc = "cleanup", !.success = b]

\* lines 242-247: the path must exist; os.getcwd() raises when the working
\* directory is gone, which the outer handler turns into False
PushEnter(j) ==
    /\ j \in JobIds
    /\ jobs[j].pc = "push"
    /\ jobs' = [jobs EXCEPT ![j] =
                  IF Exists(@.clone_path) /\ Exists(cwd)
                  THEN [@ EXCEPT !.pc = "chdir", !.original_cwd = cwd]
                  ELSE PushReturns(@, FALSE)]
    /\ UNCHANGED <<JobFrame, destRepos, fs, cwd, now, faults>>

\* line 248: os.chdir(clone_path) changes the directory of the process
PushChdir(j) ==
    /\ j \in JobIds
    /\ jobs[j].pc = "chdir"
    /\ IF Exists(jobs[j].clone_path)
       THEN /\ cwd' = jobs[j].clone_path
            /\ jobs' = [jobs EXCEPT ![j].pc = "enum"]
       ELSE /\ jobs' = [jobs EXCEPT ![j] = PushReturns(@, FALSE)]
            /\ UNCHANGED cwd
    /\ UNCHANGED <<JobFrame, destRepos, fs, now, faults>>

\* the return statements inside the inner try: the finally clause runs next
PushLeaves(job, b) == [job EXCEPT !.pc = "finally", !.ret = b]

\* lines 253-267: git for-each-ref runs in the working directory of the
\* process; outside a mirror it fails
AfterForEachRef(job, refs) ==
    LET valid_refs == ValidRefs(AllRefs(refs)) IN
    IF valid_refs = <<>>
    THEN PushLeaves(job, TRUE)
    ELSE [job EXCEPT !.pc = "batch", !.valid_refs = valid_refs, !.i = 0]

ForEachRef(j) ==
    /\ j \in JobIds
    /\ jobs[j].pc = "enum"
    /\ jobs' = [jobs EXCEPT ![j] =
                  IF MirrorAt(cwd) = {}
                  THEN PushLeaves([@ EXCEPT !.enum_dirs = Append(@, cwd),
                                            !.get_refs_returncode = 128], FALSE)
                  ELSE AfterForEachRef([@ EXCEPT !.enum_dirs = Append(@, cwd),
                                                 !.get_refs_returncode = 0],
                                       RefsOf((CHOOSE e \in MirrorAt(cwd) : TRUE).repo))]
    /\ UNCHANGED <<JobFrame, destRepos, fs, cwd, now, faults>>

ForEachRefFails(j) ==
    /\ j \in JobIds
    /\ jobs[j].pc = "enum"
    /\ faults > 0
    /\ faults' = faults - 1
    /\ jobs' = [jobs EXCEPT ![j] =
                  PushLeaves([@ EXCEPT !.enum_dirs = Append(@, cwd),
                                       !.get_refs_returncode = 128], FALSE)]
    /\ UNCHANGED <<JobFrame, destRepos, fs, cwd, now>>

\* the loop of line 271 moves to the next batch or ends with line 300
NextBatch(job) ==
    IF job.i + BatchSize < Len(job.valid_refs)
    THEN [job EXCEPT !.pc = "batch", !.i = @ + BatchSize]
    ELSE PushLeaves(job, TRUE)

\* lines 275-281: one push of the whole batch; status 0 or not
AfterBatch(job, rc) ==
    IF rc = 0
    THEN NextBatch(Pushed(job, "batch", BatchRefs(job), rc))
    ELSE [Pushed(job, "batch", BatchRefs(job), rc) EXCEPT
             !.pc = "single", !.k = 0, !.failed_refs = <<>>]

BatchPush(j) ==
    /\ j \in JobIds
    /\ jobs[j].pc = "batch"
    /\ jobs' = [jobs EXCEPT ![j] =
                  AfterBatch(@, IF CanPush(BatchRefs(@)) THEN 0 ELSE 1)]
    /\ UNCHANGED <<JobFrame, destRepos, fs, cwd, now, faults>>

BatchPushFails(j) ==
    /\ j \in JobIds
    /\ jobs[j].pc = "batch"
    /\ faults > 0
    /\ faults' = faults - 1
    /\ jobs' = [jobs EXCEPT ![j] = AfterBatch(@, 1)]
    /\ UNCHANGED <<JobFrame, destRepos, fs, cwd, now>>


\* line 291: 'refs/pull/' in ref
HoldsPullText(ref) == Contains(ref, PullPrefix)

\* line 296: the condition of the error record
HardFailure(failed_refs) ==
    /\ failed_refs # <<>>
    /\ ~\E n \in 1..Len(failed_refs) : HoldsPullText(failed_refs[n])


\* a fallback that ends the push when it had to write the error record
EndOfFallbackStops(job) ==
    IF HardFailure(job.failed_refs)
    THEN PushLeaves([job EXCEPT !.errors = Append(@, job.failed_refs)], FALSE)
    ELSE NextBatch(job)

\* lines 296-297 at the end of the fallback loop: the error record names the
\* failed refs
EndOfFallback(job) ==
    NextBatch(IF HardFailure(job.failed_refs)
              THEN [job EXCEPT !.errors = Append(@, job.failed_refs)]
              ELSE job)


\* a fallback that gives up at the first ref it cannot push
AfterSingleStopsAtFailure(job, rc) ==
    LET ref == BatchRefs(job)[job.k + 1]
        pushed == Pushed(job, "single", <<ref>>, rc)
        failed == IF rc # 0 /\ ~HoldsPullText(ref)
                  THEN Append(job.failed_refs, ref)
                  ELSE job.failed_refs
        counted == [pushed EXCEPT !.failed_refs = failed, !.k = @ + 1]
    IN  IF counted.k < Len(BatchRefs(job)) /\ rc = 0
        THEN counted
        ELSE EndOfFallback(counted)

\* lines 283-297: the fallback pushes one ref of the failed batch
AfterSingle(job, rc) ==
    LET ref == BatchRefs(job)[job.k + 1]
        pushed == Pushed(job, "single", <<ref>>, rc)
        failed == IF rc # 0 /\ ~HoldsPullText(ref)
                  THEN Append(job.failed_refs, ref)
                  ELSE job.failed_refs
        counted == [pushed EXCEPT !.failed_refs = failed, !.k = @ + 1]
    IN  IF counted.k < Len(BatchRefs(job)) THEN counted ELSE EndOfFallback(counted)

SinglePush(j) ==
    /\ j \in JobIds
    /\ jobs[j].pc = "single"
    /\ jobs' = [jobs EXCEPT ![j] =
                  AfterSingle(@, IF CanPush(<<BatchRefs(@)[@.k + 1]>>) THEN 0 ELSE 1)]
    /\ UNCHANGED <<JobFrame, destRepos, fs, cwd, now, faults>>

SinglePushFails(j) ==
    /\ j \in JobIds
    /\ jobs[j].pc = "single"
    /\ faults > 0
    /\ faults' = faults - 1
    /\ jobs' = [jobs EXCEPT ![j] = AfterSingle(@, 1)]
    /\ UNCHANGED <<JobFrame, destRepos, fs, cwd, now>>

\* a push that takes an expired timeout for one more failed status
PushTimeoutGoesOn(j) ==
    /\ j \in JobIds
    /\ jobs[j].pc \in {"batch", "single"}
    /\ faults > 0
    /\ faults' = faults - 1
    /\ jobs' = [jobs EXCEPT ![j] =
                  IF @.pc = "batch" THEN AfterBatch(@, -1) ELSE AfterSingle(@, -1)]
    /\ UNCHANGED <<JobFrame, destRepos, fs, cwd, now>>

\* subprocess.TimeoutExpired leaves through the finally clause to line 305
PushTimeout(j) ==
    /\ j \in JobIds
    /\ jobs[j].pc \in {"batch", "single"}
    /\ faults > 0
    /\ faults' = faults - 1
    /\ jobs' = [jobs EXCEPT ![j] =
                  PushLeaves(Pushed(@, IF @.pc = "batch" THEN "batch" ELSE "single",
                                    IF @.pc = "batch" THEN BatchRefs(@)
                                    ELSE <<BatchRefs(@)[@.k + 1]>>, -1), FALSE)]
    /\ UNCHANGED <<JobFrame, destRepos, fs, cwd, now>>

\* line 303: os.chdir(original_cwd); if it raises, the handler of line 308
\* replaces the value being returned by False
PushFinally(j) ==
    /\ j \in JobIds
    /\ jobs[j].pc = "finally"
    /\ IF Exists(jobs[j].original_cwd)
       THEN /\ cwd' = jobs[j].original_cwd
            /\ jobs' = [jobs EXCEPT ![j] = PushReturns(@, @.ret)]
       ELSE /\ jobs' = [jobs EXCEPT ![j] = PushReturns(@, FALSE)]
            /\ UNCHANGED cwd
    /\ UNCHANGED <<JobFrame, destRepos, fs, now, faults>>

\* the calls made without a timeout argument: session.get of line 155,
\* session.post of line 181 and git for-each-ref of line 253
Untimed == {"exists", "create", "enum"}

\* the host, or git, never answers such a call: the worker thread waits in it
\* for ever
CallNeverAnswers(j) ==
    /\ j \in JobIds
    /\ jobs[j].pc \in Untimed
    /\ faults > 0
    /\ faults' = faults - 1
    /\ jobs' = [jobs EXCEPT ![j] =
                  [Call(@, @.pc, FALSE,
                        IF @.pc = "enum" THEN <<>> ELSE GetDestRepoName(@.repo.name),
                        "") EXCEPT !.pc = "hung"]]
    /\ UNCHANGED <<JobFrame, destRepos, fs, cwd, now>>


\* a cleanup whose failure makes the job fail
CleanupFailureFailsJob(j) ==
    /\ j \in JobIds
    /\ jobs[j].pc = "cleanup"
    /\ \E removed \in BOOLEAN :
         /\ jobs' = [jobs EXCEPT ![j] =
                       Return(Step(@, "cleanup", removed), @.success /\ removed)]
         /\ IF Exists(jobs[j].clone_path)
            THEN IF removed
                 THEN fs' = RmTree(jobs[j].clone_path) /\ faults' = faults
                 ELSE faults > 0 /\ fs' = fs /\ faults' = faults - 1
            ELSE removed /\ UNCHANGED <<fs, faults>>
    /\ UNCHANGED <<JobFrame, destRepos, cwd, now>>

\* lines 348-355: the working path is removed and the push result returned
Cleanup(j) ==
    /\ j \in JobIds
    /\ jobs[j].pc = "cleanup"
    /\ \E removed \in BOOLEAN :
         /\ jobs' = [jobs EXCEPT ![j] =
                       Return(Step(@, "cleanup", removed), @.success)]
         /\ IF Exists(jobs[j].clone_path)
            THEN IF removed
                 THEN fs' = RmTree(jobs[j].clone_path) /\ faults' = faults
                 ELSE faults > 0 /\ fs' = fs /\ faults' = faults - 1
            ELSE removed /\ UNCHANGED <<fs, faults>>
    /\ UNCHANGED <<JobFrame, destRepos, cwd, now>>

-----------------------------------------------------------------------------
(* run_backup: the as_completed loop and the summary *)

\* a loop whose except branch does not count the raising future
CollectLosesException(j) ==
    /\ j \in JobIds
    /\ mainPc = "pool"
    /\ jobs[j].pc = "done"
    /\ j \notin collected
    /\ collected' = collected \cup {j}
    /\ stats' = IF jobs[j].outcome = "True"
                THEN [stats EXCEPT !.successful = @ + 1]
                ELSE IF jobs[j].outcome = "False"
                THEN [stats EXCEPT !.failed = @ + 1]
                ELSE stats
    /\ UNCHANGED <<toolVars, earlier, repo_prefix, mainPc, page, repos, dry_run, report, jobs,
                   srcRepos, destRepos, fs, cwd, now, faults, requests,
                   include_only, exclude_repos>>


\* a loop that takes every finished future at once and counts one of them
CollectSeveralAtOnce(j) ==
    /\ j \in JobIds
    /\ mainPc = "pool"
    /\ jobs[j].pc = "done"
    /\ j \notin collected
    /\ collected' = collected \cup {h \in JobIds : jobs[h].pc = "done"}
    /\ stats' = IF jobs[j].outcome = "True"
                THEN [stats EXCEPT !.successful = @ + 1]
                ELSE [stats EXCEPT !.failed = @ + 1]
    /\ UNCHANGED <<toolVars, earlier, repo_prefix, mainPc, page, repos, dry_run, report, jobs,
                   srcRepos, destRepos, fs, cwd, now, faults, requests,
                   include_only, exclude_repos>>

\* a finished future is consumed: one counter is incremented
Collect(j) ==
    /\ j \in JobIds
    /\ mainPc = "pool"
    /\ jobs[j].pc = "done"
    /\ j \notin collected
    /\ collected' = collected \cup {j}
    /\ stats' = IF jobs[j].outcome = "True"
                THEN [stats EXCEPT !.successful = @ + 1]
                ELSE [stats EXCEPT !.failed = @ + 1]
    /\ UNCHANGED <<toolVars, earlier, repo_prefix, mainPc, page, repos, dry_run, report, jobs,
                   srcRepos, destRepos, fs, cwd, now, faults, requests,
                   include_only, exclude_repos>>

\* every future was consumed: print_summary, then run_backup returns
Summary ==
    /\ mainPc = "pool"
    /\ collected = JobIds
    /\ mainPc' = "returned"
    /\ UNCHANGED <<toolVars, earlier, repo_prefix, stats, page, repos, dry_run, report, jobs,
                   collected, srcRepos, destRepos, fs, cwd, now, faults,
                   requests, include_only, exclude_repos>>

-----------------------------------------------------------------------------
(* The run *)

\* the futures a run can submit
Slots == 1..(MaxRepos + 1)

Next ==
    \/ ListPage
    \/ ListRateLimited
    \/ ListError
    \/ DryRun
    \/ Dispatch
    \/ \E j \in Slots : StartJob(j)
    \/ \E j \in Slots : AllocPath(j)
    \/ \E j \in Slots : MakeCloneDir(j)
    \/ \E j \in Slots : RepositoryExists(j)
    \/ \E j \in Slots : RepositoryExistsFails(j)
    \/ \E j \in Slots : CreateRepository(j)
    \/ \E j \in Slots : CreateRepositoryFails(j)
    \/ \E j \in Slots : CloneRepository(j)
    \/ \E j \in Slots : CloneRepositoryFails(j)
    \/ \E j \in Slots : VerifyClone(j)
    \/ \E j \in Slots : PushEnter(j)
    \/ \E j \in Slots : PushChdir(j)
    \/ \E j \in Slots : ForEachRef(j)
    \/ \E j \in Slots : ForEachRefFails(j)
    \/ \E j \in Slots : BatchPush(j)
    \/ \E j \in Slots : BatchPushFails(j)
    \/ \E j \in Slots : PushTimeout(j)
    \/ \E j \in Slots : SinglePush(j)
    \/ \E j \in Slots : SinglePushFails(j)
    \/ \E j \in Slots : PushFinally(j)
    \/ \E j \in Slots : Cleanup(j)
    \/ \E j \in Slots : CallNeverAnswers(j)
    \/ \E j \in Slots : Collect(j)
    \/ Summary

Spec == Init /\ [][Next]_vars

-----------------------------------------------------------------------------
(* The listing alone, over listings of several pages, ended by a dry run *)

BigFilters == {NoFilter,
               [include_only |-> {}, exclude_repos |-> {<<"r", "1">>}]}

InitList == InitEnv(BigOrgs, Setups, BigFilters, {TRUE}, MaxListFaults)

NextList ==
    \/ ListPage
    \/ ListRateLimited
    \/ ListError
    \/ DryRun

SpecList == InitList /\ [][NextList]_vars

-----------------------------------------------------------------------------
(* The tool run again: main() builds a new GitHubOrgBackup and calls        *)
(* run_backup against the organisations and the disk the run before left.   *)
(* No call of the environment fails here: every API request is answered,    *)
(* every git clone succeeds, and git push fails only where the code runs it *)
(* in a directory that lacks the refs.                                      *)

\* the return codes of the git push commands of the run
PushCodes ==
    UNION {{jobs[j].pushes[n].rc : n \in 1..Len(jobs[j].pushes)} : j \in JobIds}

\* the jobs of the run whose git clone failed
FailedClones == {j \in JobIds : jobs[j].last.step = "clone" /\ ~jobs[j].last.ok}

\* main(): a new process in the start directory, an object from the same
\* arguments (the prefix carries no date), zeroed statistics
RunAgain ==
    /\ mainPc = "returned"
    /\ Len(earlier) < MaxRuns - 1
    /\ earlier' = Append(earlier, [stats |-> stats, codes |-> PushCodes,
                                   failed_clones |-> Cardinality(FailedClones),
                                   destRepos |-> destRepos])
    /\ stats' = NoStats
    /\ mainPc' = "list"
    /\ page' = 1
    /\ repos' = <<>>
    /\ report' = <<>>
    /\ jobs' = <<>>
    /\ collected' = {}
    /\ requests' = <<>>
    /\ cwd' = StartDir
    /\ UNCHANGED <<toolVars, repo_prefix, dry_run, srcRepos, destRepos, fs, now,
                   faults, include_only, exclude_repos>>

\* the repositories of an organisation have different names
DistinctOrgs ==
    {org \in SmallOrgs :
        \A m, n \in 1..Len(org) : org[m].name = org[n].name => m = n}

InitTwice == InitEnv(DistinctOrgs, {PlainSetup}, {NoFilter}, {FALSE}, 0)

NextTwice ==
    \/ ListPage
    \/ Dispatch
    \/ \E j \in Slots : StartJob(j)
    \/ \E j \in Slots : AllocPath(j)
    \/ \E j \in Slots : MakeCloneDir(j)
    \/ \E j \in Slots : RepositoryExists(j)
    \/ \E j \in Slots : CreateRepository(j)
    \/ \E j \in Slots : CloneRepository(j)
    \/ \E j \in Slots : VerifyClone(j)
    \/ \E j \in Slots : PushEnter(j)
    \/ \E j \in Slots : PushChdir(j)
    \/ \E j \in Slots : ForEachRef(j)
    \/ \E j \in Slots : BatchPush(j)
    \/ \E j \in Slots : SinglePush(j)
    \/ \E j \in Slots : PushFinally(j)
    \/ \E j \in Slots : Cleanup(j)
    \/ \E j \in Slots : Collect(j)
    \/ Summary
    \/ RunAgain

SpecTwice == InitTwice /\ [][NextTwice]_vars

-----------------------------------------------------------------------------
(* The pool with more repositories than workers.  No call of the            *)
(* environment fails, and the process keeps running: a step that can be     *)
(* taken is eventually taken.                                               *)

InitPool == InitEnv({CrowdedOrg}, {PlainSetup}, {NoFilter}, {FALSE}, 0)

NextPool ==
    \/ ListPage
    \/ Dispatch
    \/ \E j \in Slots : StartJob(j)
    \/ \E j \in Slots : AllocPath(j)
    \/ \E j \in Slots : MakeCloneDir(j)
    \/ \E j \in Slots : RepositoryExists(j)
    \/ \E j \in Slots : CreateRepository(j)
    \/ \E j \in Slots : CloneRepository(j)
    \/ \E j \in Slots : VerifyClone(j)
    \/ \E j \in Slots : PushEnter(j)
    \/ \E j \in Slots : PushChdir(j)
    \/ \E j \in Slots : ForEachRef(j)
    \/ \E j \in Slots : BatchPush(j)
    \/ \E j \in Slots : SinglePush(j)
    \/ \E j \in Slots : PushFinally(j)
    \/ \E j \in Slots : Cleanup(j)
    \/ \E j \in Slots : Collect(j)
    \/ Summary

SpecPool == InitPool /\ [][NextPool]_vars /\ WF_vars(NextPool)

-----------------------------------------------------------------------------
(* The push alone: one repository with more refs than a batch, without refs  *)
(* or with pull-request refs only, and up to MaxPushFaults pushes that fail  *)
(* or time out; one run has a second repository, pushed at the same time     *)

PushOrgs ==
    {<<Descriptor(NameMany)>>, <<Descriptor(NameEmpty)>>, <<Descriptor(NamePulls)>>,
     <<Descriptor(NameB)>>, <<Descriptor(NameEmpty), Descriptor(NameA)>>,
     <<Descriptor(NameA), Descriptor(NameB)>>}

InitPush == InitEnv(PushOrgs, {PlainSetup}, {NoFilter}, {FALSE}, MaxPushFaults)

NextPush ==
    \/ ListPage
    \/ Dispatch
    \/ \E j \in Slots : StartJob(j)
    \/ \E j \in Slots : AllocPath(j)
    \/ \E j \in Slots : MakeCloneDir(j)
    \/ \E j \in Slots : RepositoryExists(j)
    \/ \E j \in Slots : CreateRepository(j)
    \/ \E j \in Slots : CloneRepository(j)
    \/ \E j \in Slots : CloneRepositoryFails(j)
    \/ \E j \in Slots : VerifyClone(j)
    \/ \E j \in Slots : PushEnter(j)
    \/ \E j \in Slots : PushChdir(j)
    \/ \E j \in Slots : ForEachRef(j)
    \/ \E j \in Slots : BatchPush(j)
    \/ \E j \in Slots : BatchPushFails(j)
    \/ \E j \in Slots : PushTimeout(j)
    \/ \E j \in Slots : SinglePush(j)
    \/ \E j \in Slots : SinglePushFails(j)
    \/ \E j \in Slots : PushFinally(j)
    \/ \E j \in Slots : Cleanup(j)
    \/ \E j \in Slots : Collect(j)
    \/ Summary

SpecPush == InitPush /\ [][NextPush]_vars

-----------------------------------------------------------------------------
(* cleanup_backups.py: GitHubCleanup.cleanup_backups on one organisation    *)

\* the --prefix argument
CleanupPrefix == <<"bk-">>

\* names that start with the prefix, that hold it further on, and others
MixedName(i) ==
    IF i % 3 = 1 THEN <<"bk-", ToString(i)>>
    ELSE IF i % 3 = 2 THEN <<"x-", "bk-", ToString(i)>>
    ELSE <<"keep-", ToString(i)>>

MixedOrg(k) == [i \in 1..k |-> [name |-> MixedName(i), private |-> (i % 2 = 0)]]

\* an organisation without backups
PlainOrg == [i \in 1..2 |-> [name |-> <<"keep-", ToString(i)>>, private |-> FALSE]]

\* the small organisations, and one whose listing has two pages
CleanupOrgs == {<<>>, PlainOrg, MixedOrg(4)}
PagedOrg == MixedOrg(PerPage + CleanupExtra)

\* what the operator types at the prompt
Answers == {"DELETE", "delete", "DELETE ", ""}

\* the small organisations with MaxCleanupFaults failures, the paged one
\* with one
InitCleanup ==
    /\ \/ orgRepos \in CleanupOrgs /\ faults = MaxCleanupFaults
       \/ orgRepos = PagedOrg /\ faults = 1
    /\ \E prefix \in {CleanupPrefix, <<>>}, mode \in BOOLEAN :
          tool = [NotStarted EXCEPT !.pc = "list", !.prefix = prefix, !.dry_run = mode]
    /\ deletes = <<>>
    /\ srcRepos = <<>>
    /\ now = 0
    /\ repo_prefix = <<>>
    /\ destRepos = {}
    /\ include_only = {}
    /\ exclude_repos = {}
    /\ dry_run = FALSE
    /\ fs = {}
    /\ cwd = StartDir
    /\ stats = NoStats
    /\ mainPc = "off"
    /\ page = 1
    /\ repos = <<>>
    /\ report = <<>>
    /\ jobs = <<>>
    /\ collected = {}
    /\ requests = <<>>
    /\ earlier = <<>>

\* what the tool leaves alone: the state of backup_org.py
backupVars == <<earlier, repo_prefix, stats, mainPc, page, repos, dry_run, report,
                jobs, collected, srcRepos, destRepos, fs, cwd, now, requests,
                include_only, exclude_repos>>

\* a filter that keeps the names that hold the prefix anywhere
HoldsPrefix(repo) == Contains(repo.name, tool.prefix)

\* repo['name'].startswith(self.prefix)
HasPrefix(repo) == StartsWith(repo.name, tool.prefix)

\* lines 66-72
Matching(page_repos) == SeqFilter(HasPrefix, page_repos)

\* cleanup_backups from the return of get_repositories to its next blocking
\* call: nothing to do, the dry-run report, or the confirmation prompt
AfterListing(t) ==
    IF t.repos = <<>> THEN [t EXCEPT !.pc = "returned"]
    ELSE IF t.dry_run THEN [t EXCEPT !.pc = "returned"]
    ELSE [t EXCEPT !.pc = "confirm"]

\* get_repositories: one page is answered; an empty page ends the loop
ToolListPage ==
    /\ tool.pc = "list"
    /\ LET page_repos == ServerPage(orgRepos, tool.page) IN
       tool' = IF page_repos = <<>>
               THEN AfterListing(tool)
               ELSE [tool EXCEPT !.repos = @ \o Matching(page_repos), !.page = @ + 1]
    /\ UNCHANGED <<orgRepos, deletes, faults, backupVars>>

\* a handler that returns the matches of the pages fetched so far
ToolListErrorKeepsPages ==
    /\ tool.pc = "list"
    /\ faults > 0
    /\ faults' = faults - 1
    /\ tool' = AfterListing([tool EXCEPT !.failed_page = tool.page])
    /\ UNCHANGED <<orgRepos, deletes, backupVars>>

\* get_repositories: the request of a page fails and [] is returned;
\* failed_page remembers the page
ToolListError ==
    /\ tool.pc = "list"
    /\ faults > 0
    /\ faults' = faults - 1
    /\ tool' = AfterListing([tool EXCEPT !.repos = <<>>, !.failed_page = tool.page])
    /\ UNCHANGED <<orgRepos, deletes, backupVars>>

\* a prompt that accepts the answer in any case
ConfirmAnyCase ==
    /\ tool.pc = "confirm"
    /\ \E confirm \in Answers :
         tool' = IF confirm \in {"DELETE", "delete"}
                 THEN [tool EXCEPT !.pc = "delete", !.confirm = confirm]
                 ELSE [tool EXCEPT !.pc = "returned", !.confirm = confirm]
    /\ UNCHANGED <<orgRepos, deletes, faults, backupVars>>

\* lines 122-133: the prompt; only the answer DELETE starts the loop
Confirm ==
    /\ tool.pc = "confirm"
    /\ \E confirm \in Answers :
         tool' = IF confirm # "DELETE"
                 THEN [tool EXCEPT !.pc = "returned", !.confirm = confirm]
                 ELSE [tool EXCEPT !.pc = "delete", !.confirm = confirm]
    /\ UNCHANGED <<orgRepos, deletes, faults, backupVars>>

\* input() raises (end of input, interrupt): main() ends the program
ConfirmRaises ==
    /\ tool.pc = "confirm"
    /\ faults > 0
    /\ faults' = faults - 1
    /\ tool' = [tool EXCEPT !.pc = "raised"]
    /\ UNCHANGED <<orgRepos, deletes, backupVars>>

\* a delete_repository for which only 204 is a success
OnlyDeleted(status_code) == status_code = 204

\* delete_repository's value for the status of the answer; -1 stands for a
\* transport error
DeleteResult(status_code) == status_code \in {204, 404}

\* lines 139-143 and, after the last repository, the summary
Counted(t, status_code) ==
    LET counted == IF DeleteResult(status_code)
                   THEN [t EXCEPT !.successful = @ + 1, !.k = @ + 1]
                   ELSE [t EXCEPT !.failed = @ + 1, !.k = @ + 1]
    IN  IF counted.k = Len(t.repos) THEN [counted EXCEPT !.pc = "returned"] ELSE counted

OnHost(name) == \E i \in 1..Len(orgRepos) : orgRepos[i].name = name

Without(name) ==
    [i \in 1..(Len(orgRepos) - 1) |->
        IF \A h \in 1..i : orgRepos[h].name # name THEN orgRepos[i] ELSE orgRepos[i + 1]]

\* the host deletes the repository (204) or does not know it (404)
ToolDelete ==
    /\ tool.pc = "delete"
    /\ LET name == tool.repos[tool.k + 1].name IN
       IF OnHost(name)
       THEN /\ orgRepos' = Without(name)
            /\ deletes' = Append(deletes, [name |-> name, status_code |-> 204])
            /\ tool' = Counted(tool, 204)
       ELSE /\ deletes' = Append(deletes, [name |-> name, status_code |-> 404])
            /\ tool' = Counted(tool, 404)
            /\ UNCHANGED orgRepos
    /\ UNCHANGED <<faults, backupVars>>

\* the host refuses (403), fails (500) or the request gets no answer (-1)
ToolDeleteFails ==
    /\ tool.pc = "delete"
    /\ faults > 0
    /\ faults' = faults - 1
    /\ \E status_code \in {403, 500, -1} :
         /\ deletes' = Append(deletes, [name |-> tool.repos[tool.k + 1].name,
                                         status_code |-> status_code])
         /\ tool' = Counted(tool, status_code)
    /\ UNCHANGED <<orgRepos, backupVars>>

\* someone else deletes the repository the tool is about to delete
DeletedElsewhere ==
    /\ tool.pc = "delete"
    /\ faults > 0
    /\ OnHost(tool.repos[tool.k + 1].name)
    /\ faults' = faults - 1
    /\ orgRepos' = Without(tool.repos[tool.k + 1].name)
    /\ UNCHANGED <<tool, deletes, backupVars>>

NextCleanup ==
    \/ ToolListPage
    \/ ToolListError
    \/ Confirm
    \/ ConfirmRaises
    \/ ToolDelete
    \/ ToolDeleteFails
    \/ DeletedElsewhere

SpecCleanup == InitCleanup /\ [][NextCleanup]_vars


-----------------------------------------------------------------------------
(* Properties *)

Successes == {j \in collected : jobs[j].outcome = "True"}
Failures == {j \in collected : jobs[j].outcome \in {"False", "exception"}}

\* C1: every future is counted exactly once, a raising future as a failure:
\* at every moment successful and failed are the numbers of consumed futures
\* that returned True and that returned False or raised, their sum is at most
\* total_repos, and once a run that is no dry run has returned,
\* successful + failed = total_repos = the number of submitted repositories.
StatsCountEachJobOnce ==
    /\ collected \subseteq {j \in JobIds : jobs[j].pc = "done"}
    /\ stats.successful = Cardinality(Successes)
    /\ stats.failed = Cardinality(Failures)
    /\ stats.successful + stats.failed <= stats.total_repos
    /\ (~dry_run /\ mainPc \in {"pool", "returned"}) => stats.total_repos = Len(jobs)
    /\ (~dry_run /\ mainPc = "returned") =>
          stats.successful + stats.failed = stats.total_repos

\* a run has returned in which one future raised and another succeeded
SummaryAfterRaisingJob ==
    /\ ~dry_run
    /\ mainPc = "returned"
    /\ \E j \in JobIds : jobs[j].outcome = "exception"
    /\ \E j \in JobIds : jobs[j].outcome = "True"
    /\ stats.failed >= 1

\* C2: after a job has returned, its working path does not exist, unless the
\* removal was attempted and failed.
WorkPathGoneAfterReturn ==
    \A j \in JobIds :
        (jobs[j].pc = "done" /\ jobs[j].clone_path # <<>>) =>
            \/ ~Exists(jobs[j].clone_path)
            \/ (jobs[j].last.step = "cleanup" /\ ~jobs[j].last.ok)

\* C3: no refspec of any git push, of a batch or of a single ref, names a ref
\* that starts with refs/pull/.
NoPullRefInAnyPush ==
    \A j \in JobIds : \A n \in 1..Len(jobs[j].pushes) :
        \A m \in 1..Len(jobs[j].pushes[n].refspecs) :
            /\ ~StartsWith(jobs[j].pushes[n].refspecs[m].src, PullPrefix)
            /\ ~StartsWith(jobs[j].pushes[n].refspecs[m].dst, PullPrefix)

HasPullRef(n) == \E m \in 1..Len(RefsOf(n)) : StartsWith(RefsOf(n)[m], PullPrefix)

\* a job listed its own mirror, which holds a pull-request ref, and pushed a
\* batch and then a single ref
PushedFromMirrorWithPullRef ==
    \E j \in JobIds :
        /\ HasPullRef(jobs[j].repo.name)
        /\ jobs[j].enum_dirs = <<jobs[j].clone_path>>
        /\ \E n \in 1..Len(jobs[j].pushes) : jobs[j].pushes[n].kind = "batch"
        /\ \E n \in 1..Len(jobs[j].pushes) : jobs[j].pushes[n].kind = "single"

\* C4: a job lists refs only in its own working path and runs every push
\* there.
JobsUseOwnMirror ==
    \A j \in JobIds :
        /\ \A n \in 1..Len(jobs[j].enum_dirs) : jobs[j].enum_dirs[n] = jobs[j].clone_path
        /\ \A n \in 1..Len(jobs[j].pushes) : jobs[j].pushes[n].dir = jobs[j].clone_path

\* C5: a creation request answered "already exists" leaves the job where an
\* answer 201 leaves it: about to clone, with no result yet.
AlreadyExistsProceedsToClone ==
    \A j \in JobIds :
        (jobs[j].last.step = "create"
            /\ jobs[j].last.answer \in {"201", "422 already exists"}) =>
            /\ jobs[j].last.ok
            /\ jobs[j].pc = "clone"
            /\ jobs[j].outcome = "none"

\* a creation request was answered "already exists"
CreationFoundExisting ==
    \E j \in JobIds :
        /\ jobs[j].last.step = "create"
        /\ jobs[j].last.answer = "422 already exists"

PassingIndexes ==
    {i \in 1..Len(srcRepos) :
        /\ srcRepos[i].name \notin exclude_repos
        /\ (include_only = {} \/ srcRepos[i].name \in include_only)}

\* C6: a dry run submits no job and touches neither the file system nor the
\* working directory nor the counters of results; when it has returned it
\* has reported, for each listed repository that passes the filters and for
\* no other, the name prefix + source name.
DryRunOnlyReports ==
    dry_run =>
        /\ jobs = <<>>
        /\ collected = {}
        /\ fs = {}
        /\ cwd = StartDir
        /\ stats.successful = 0 /\ stats.failed = 0
        /\ mainPc \in {"list", "filter", "raised"} => report = <<>>
        /\ mainPc = "returned" =>
              /\ Len(report) = Cardinality(PassingIndexes)
              /\ \A n \in 1..Len(report) :
                    /\ report[n].dest_name = repo_prefix \o report[n].name
                    /\ \E i \in PassingIndexes : srcRepos[i].name = report[n].name

\* a dry run with a prefix has reported the whole listing
DryRunReportedAll ==
    /\ dry_run
    /\ mainPc = "returned"
    /\ repo_prefix # <<>>
    /\ Len(report) = MaxRepos
    /\ Len(report) = Len(srcRepos)

IsAnswered(r) == r.outcome \in {"ok", "empty"}

\* the requests the host answered with a page
Answered == SeqFilter(IsAnswered, requests)

PageCount(org) == (Len(org) + PerPage - 1) \div PerPage

\* C7: the pages answered are 1, 2, ... in this order, an empty page is the
\* last one requested, and the list is the concatenation of the non-empty
\* pages: while listing, of the pages before the current one, and on return
\* of all of them, each descriptor once and in the order of the listing.
ListingIsAllPagesInOrder ==
    /\ \A n \in 1..Len(Answered) :
          /\ Answered[n].page = n
          /\ (Answered[n].outcome = "empty") = (ServerPage(srcRepos, n) = <<>>)
          /\ Answered[n].outcome = "empty" => n = Len(Answered) /\ mainPc # "list"
    /\ mainPc \in {"list", "filter"} =>
          /\ Len(repos) = Min((page - 1) * PerPage, Len(srcRepos))
          /\ \A i \in 1..Len(repos) :
                repos[i] = ServerPage(srcRepos, ((i - 1) \div PerPage) + 1)
                                     [((i - 1) % PerPage) + 1]
    /\ mainPc = "filter" =>
          /\ repos = srcRepos
          /\ Len(Answered) = PageCount(srcRepos) + 1
          /\ \A i, h \in 1..Len(repos) : i # h => repos[i].name # repos[h].name

\* a listing of a full page and a shorter one has returned
ListedTwoPages ==
    /\ mainPc = "filter"
    /\ Len(srcRepos) = PerPage + BigOrgExtra
    /\ Len(repos) = PerPage + BigOrgExtra
    /\ Len(Answered) = 3

\* C8: once a page request has failed otherwise than by an exhausted quota,
\* run_backup has raised: no list was returned, no job was submitted, no
\* counter was changed and nothing was reported.
FailedListingStopsRun ==
    (\E n \in 1..Len(requests) : requests[n].outcome = "error") =>
        /\ mainPc = "raised"
        /\ repos = <<>>
        /\ jobs = <<>>
        /\ collected = {}
        /\ stats = NoStats
        /\ report = <<>>
        /\ fs = {}

\* the request after a page that was fetched has failed
ListingFailedAfterAPage ==
    /\ Len(requests) = 2
    /\ requests[1].outcome = "ok"
    /\ requests[2].outcome = "error"
    /\ ~dry_run

ProbeNames == SmallNames \cup Range([i \in 1..Len(srcRepos) |-> srcRepos[i].name])
                \cup {<<"bk-", "a">>, <<"a", "b">>, <<>>}

\* C9: the prefix is the one composed at construction, whatever the clock
\* shows later; the name given to the existence check, to the creation
\* request, to every push and to the dry-run report is that prefix followed
\* by the source name; two different source names get different names.
DestNameIsPrefixPlusName ==
    /\ repo_prefix \in {InitPrefix(s.prefix, s.include_date_prefix, 0) : s \in Setups}
    /\ \A j \in JobIds :
          /\ jobs[j].last.step \in {"exists", "create"} =>
                jobs[j].last.dest_name = repo_prefix \o jobs[j].repo.name
          /\ \A n \in 1..Len(jobs[j].pushes) :
                jobs[j].pushes[n].dest_name = repo_prefix \o jobs[j].repo.name
    /\ \A n \in 1..Len(report) : report[n].dest_name = repo_prefix \o report[n].name
    /\ \A n1, n2 \in ProbeNames :
          n1 # n2 => GetDestRepoName(n1) # GetDestRepoName(n2)

\* a job of a run with a date prefix has pushed after the date has changed
PushedAfterMidnight ==
    /\ StrfDate(now) # StrfDate(0)
    /\ repo_prefix = StrfDate(0) \o <<"bk-">>
    /\ \E j \in JobIds :
          /\ jobs[j].pushes # <<>>
          /\ jobs[j].last.step = "push"

\* C10: when the tool has run twice against the same source and destination,
\* no destination repository was deleted between the runs, and every git clone
\* and every git push of both runs succeeded, the second run's successful
\* count equals the first run's.
SecondRunRepeatsSuccesses ==
    (/\ Len(earlier) = 1
     /\ mainPc = "returned"
     /\ earlier[1].destRepos \subseteq destRepos
     /\ earlier[1].failed_clones = 0
     /\ FailedClones = {}
     /\ earlier[1].codes \subseteq {0}
     /\ PushCodes \subseteq {0})
        => stats.successful = earlier[1].stats.successful

\* C11: push_repository returns True whenever git for-each-ref ended with
\* status 0 and no git push timed out, whatever the statuses of the batch
\* pushes and of the pushes of single refs.
PushSucceedsWhateverTheStatuses ==
    \A j \in JobIds :
        (/\ jobs[j].pc \in {"cleanup", "done"}
         /\ jobs[j].get_refs_returncode = 0
         /\ \A n \in 1..Len(jobs[j].pushes) : jobs[j].pushes[n].rc # -1)
            => jobs[j].success

CreationRaceFailsNoJob ==
    \A j \in JobIds :
        (jobs[j].last.step = "create" /\ jobs[j].pc = "done") =>
            jobs[j].last.answer \in {"422 other", "500", "transport error"}

\* two jobs with one destination name both found it missing and both asked
\* for its creation: one created it, the other was told it exists, and both
\* go on to clone
BothJobsCreatedOneName ==
    \E j, h \in JobIds :
        /\ GetDestRepoName(jobs[j].repo.name) = GetDestRepoName(jobs[h].repo.name)
        /\ jobs[j].last.step = "create" /\ jobs[j].last.answer = "201"
        /\ jobs[h].last.step = "create" /\ jobs[h].last.answer = "422 already exists"
        /\ jobs[j].pc = "clone" /\ jobs[h].pc = "clone"

\* C14: no two jobs of a run are given the same working path, also when
\* they are jobs for the same repository name.
WorkingPathsDiffer ==
    \A j, h \in JobIds :
        (j # h /\ jobs[j].clone_path # <<>> /\ jobs[h].clone_path # <<>>) =>
            jobs[j].clone_path # jobs[h].clone_path

\* C15: every call of backup_repository that has ended returned True or
\* False: none raised.
JobsReturnABoolean ==
    \A j \in JobIds : jobs[j].pc = "done" => jobs[j].outcome \in {"True", "False"}

\* C16 as claimed: after a dry run no counter records any repository, so
\* total_repos = successful + failed as after a normal run.
DryRunCountsNothing ==
    mainPc = "returned" =>
        /\ stats.total_repos = stats.successful + stats.failed
        /\ dry_run => stats = NoStats

\* C16 as amended: a dry run leaves successful, failed and skipped at 0 and
\* sets total_repos to the number of listed repositories that pass the
\* filters; after a run that is no dry run total_repos = successful + failed.
DryRunCountsOnlyTheTotal ==
    /\ dry_run =>
          /\ stats.successful = 0 /\ stats.failed = 0 /\ stats.skipped = 0
          /\ mainPc = "returned" => stats.total_repos = Cardinality(PassingIndexes)
          /\ mainPc # "returned" => stats.total_repos = 0
    /\ (~dry_run /\ mainPc = "returned") =>
          stats.total_repos = stats.successful + stats.failed

\* a dry run has returned with a total that no result counter matches
DryRunLeftATotal ==
    /\ dry_run
    /\ mainPc = "returned"
    /\ stats.total_repos = MaxRepos
    /\ stats.successful + stats.failed = 0

\* C17: get_repositories asks for one page at most a fixed number of times,
\* the first request and the RetryTotal retries of the session.
ListingRetriesBounded ==
    \A p \in 1..page :
        Cardinality({n \in 1..Len(requests) : requests[n].page = p}) <= RetryTotal + 1

\* C18: no job waits for ever in a call: every call that gets no answer ends
\* by its timeout, so every job returns.
NoJobWaitsForEver ==
    \A j \in JobIds : jobs[j].pc # "hung"

\* C19: the cleanup tool makes a DELETE request only in a run that is no dry
\* run, that listed a repository with the prefix, and whose prompt was
\* answered with exactly DELETE; otherwise it makes none.
DeletesOnlyAfterDELETE ==
    /\ deletes # <<>> =>
          (~tool.dry_run /\ tool.confirm = "DELETE" /\ tool.repos # <<>>)
    /\ tool.pc \in {"list", "confirm"} => deletes = <<>>

\* the operator answered the prompt in lower case and the tool returned
\* without a request
LowerCaseAnswerRefused ==
    /\ tool.pc = "returned"
    /\ tool.repos # <<>>
    /\ ~tool.dry_run
    /\ tool.confirm = "delete"
    /\ deletes = <<>>

Succeeded == {n \in 1..Len(deletes) : deletes[n].status_code \in {204, 404}}

\* C20: the deletions counted successful are those answered 204 or 404, all
\* others are counted failed; after a confirmed cleanup one request was made
\* for each listed repository with the prefix, in order, and successful +
\* failed is their number.
DeleteCountsByStatus ==
    /\ tool.successful = Cardinality(Succeeded)
    /\ tool.failed = Len(deletes) - Cardinality(Succeeded)
    /\ (tool.pc = "returned" /\ tool.confirm = "DELETE") =>
          /\ tool.successful + tool.failed = Len(tool.repos)
          /\ Len(deletes) = Len(tool.repos)
          /\ \A n \in 1..Len(deletes) : deletes[n].name = tool.repos[n].name

\* a confirmed cleanup met a repository that was already gone, and a refusal
CleanupMetGoneAndRefused ==
    /\ tool.pc = "returned"
    /\ tool.confirm = "DELETE"
    /\ \E n \in 1..Len(deletes) : deletes[n].status_code = 404
    /\ \E n \in 1..Len(deletes) : deletes[n].status_code = 403
    /\ \E n \in 1..Len(deletes) : deletes[n].status_code = 204

-----------------------------------------------------------------------------
(* the order of the steps of a job *)

\* the step a job is about to take is entered from the step before it, and
\* that step succeeded
EntersAfter(a, b, step, before) ==
    (b.pc = step /\ a.pc # step) =>
        /\ a.pc = before
        /\ b.last.step = before
        /\ b.last.ok

\* C21: within a job the steps come in the order existence check, creation
\* when absent, clone, verification, push, cleanup: the clone is entered only
\* from an existence check that found the destination or from a creation that
\* succeeded, the push only from a verification that succeeded, the cleanup
\* only from the push, and a creation, clone or verification that failed ends
\* the job at once.
StepsComeInOrder ==
    [][\A j \in JobIds :
         LET a == jobs[j]
             b == jobs'[j]
         IN  j \in DOMAIN jobs' =>
             /\ (b.pc = "create" /\ a.pc # "create") =>
                    (a.pc = "exists" /\ b.last.step = "exists" /\ ~b.last.ok)
             /\ (b.pc = "clone" /\ a.pc # "clone") =>
                    /\ a.pc \in {"exists", "create"}
                    /\ b.last.step = a.pc
                    /\ b.last.ok
             /\ EntersAfter(a, b, "verify", "clone")
             /\ EntersAfter(a, b, "push", "verify")
             /\ (b.pc = "cleanup" /\ a.pc # "cleanup") =>
                    (a.pc \in {"push", "chdir", "finally"} /\ b.last.step = "push")
             /\ (a.pc \in {"create", "clone", "verify"}
                   /\ b.last.step = a.pc /\ ~b.last.ok) =>
                    (b.pc \in {"done", "hung"} /\ b.pushes = a.pushes)
      ]_vars

\* one job went through every step up to the cleanup and pushed, another one
\* ended at its failed clone without a push
OneJobThroughOneStopped ==
    \E j, h \in JobIds :
        /\ jobs[j].pc = "done" /\ jobs[j].last.step = "cleanup"
        /\ jobs[j].pushes # <<>>
        /\ jobs[h].pc = "done" /\ jobs[h].last.step = "clone" /\ ~jobs[h].last.ok
        /\ jobs[h].pushes = <<>>

-----------------------------------------------------------------------------
(* the existence check and the creation request *)

\* C22: a lookup that failed, by an error status or a transport error, counts
\* as "absent": the job is then about to request the creation, it has no
\* result yet, and no job ends at its existence check.
FailedLookupLeadsToCreation ==
    \A j \in JobIds :
        LET job == jobs[j] IN
        /\ (job.last.step = "exists" /\ job.pc # "hung") => job.outcome = "none"
        /\ (/\ job.last.step = "exists"
            /\ job.last.answer \in {"403", "500", "transport error"}) =>
               (~job.last.ok /\ job.pc = "create" /\ job.posts = 0)

\* the lookup of a job failed although its destination was there: the job is
\* about to request the creation
FailedLookupOfExistingName ==
    \E j \in JobIds :
        /\ jobs[j].last.step = "exists"
        /\ jobs[j].last.answer = "transport error"
        /\ jobs[j].last.dest_name \in destRepos
        /\ jobs[j].pc = "create"

\* C23: a job sends at most one creation request, and sends it only when its
\* existence check returned "absent"; a creation answered by an error other
\* than "already exists" ends the job with the value False, and the job has
\* cloned nothing, enumerated nothing and pushed nothing.
OneCreationOnlyWhenAbsent ==
    [][\A j \in JobIds :
         LET a == jobs[j]
             b == jobs'[j]
         IN  j \in DOMAIN jobs' =>
             /\ b.posts # a.posts =>
                    /\ a.posts = 0 /\ b.posts = 1
                    /\ a.last.step = "exists" /\ ~a.last.ok
             /\ (/\ a.pc = "create"
                 /\ b.last.step = "create"
                 /\ b.last.answer \in {"422 other", "500", "transport error"}) =>
                    /\ b.pc = "done" /\ b.outcome = "False"
                    /\ fs' = fs
                    /\ b.enum_dirs = <<>> /\ b.pushes = <<>>
      ]_vars

\* a creation request was refused for another reason than the name
CreationRefused ==
    \E j \in JobIds :
        /\ jobs[j].last.step = "create"
        /\ jobs[j].last.answer = "422 other"
        /\ jobs[j].posts = 1
        /\ jobs[j].pc = "done"

-----------------------------------------------------------------------------
(* the verification of the clone *)

\* the working path of the job is there and holds refs and objects
Verified(job) == Exists(job.clone_path) /\ IsMirror(job.clone_path)

\* C24: push_repository is called only from the verification that follows a
\* successful clone, and only when the working path exists and holds a refs
\* store and an objects store; when the path is absent or lacks a store the
\* job returns False and has enumerated no ref and invoked no push.
PushOnlyFromVerifiedMirror ==
    [][\A j \in JobIds :
         LET a == jobs[j]
             b == jobs'[j]
         IN  j \in DOMAIN jobs' =>
             /\ (b.pc = "push" /\ a.pc # "push") =>
                    /\ a.pc = "verify"
                    /\ a.last.step = "clone" /\ a.last.ok
                    /\ Verified(a)
             /\ (a.pc = "verify" /\ b # a /\ ~Verified(a)) =>
                    /\ b.pc = "done" /\ b.outcome = "False"
                    /\ b.enum_dirs = <<>> /\ b.pushes = <<>>
      ]_vars

\* the clone of a job succeeded, its working path was gone at the
\* verification, and the job ended there
CloneGoneAtVerification ==
    \E j \in JobIds :
        /\ jobs[j].pc = "done"
        /\ jobs[j].last.step = "verify" /\ ~jobs[j].last.ok
        /\ jobs[j].outcome = "False"

-----------------------------------------------------------------------------
(* the removal of the working path *)

\* C25: the value backup_repository returns after the push step is the value
\* push_repository returned, whether the removal of the working path
\* succeeded or raised.
RemovalNeverChangesOutcome ==
    [][\A j \in JobIds :
         LET a == jobs[j]
             b == jobs'[j]
         IN  (j \in DOMAIN jobs' /\ a.pc = "cleanup" /\ b # a) =>
                /\ a.last.step = "push"
                /\ b.pc = "done"
                /\ b.last.step = "cleanup"
                /\ b.outcome = IF a.last.ok THEN "True" ELSE "False"
      ]_vars

\* the push of a job succeeded, the removal of its working path raised, and
\* the job returned True
ReturnedTrueWithPathLeft ==
    \E j \in JobIds :
        /\ jobs[j].pc = "done"
        /\ jobs[j].last.step = "cleanup" /\ ~jobs[j].last.ok
        /\ jobs[j].outcome = "True"
        /\ Exists(jobs[j].clone_path)

-----------------------------------------------------------------------------
(* the listing under rate limiting *)

\* the requests answered 403 with X-RateLimit-Remaining: 0
IsRateLimited(r) == r.outcome \in {"rate_limit", "sleep_error"}

\* C26: after a rate-limit response with no quota left get_repositories
\* waits and requests the same page again, with nothing appended: the
\* listing goes on at the same page, and the list it returns in the end holds
\* every descriptor once, in page order.
RateLimitRetriesSamePage ==
    /\ \A n \in 1..Len(requests) :
           IsRateLimited(requests[n]) =>
               /\ requests[n].outcome = "rate_limit"
               /\ IF n < Len(requests)
                  THEN requests[n + 1].page = requests[n].page
                  ELSE mainPc = "list" /\ page = requests[n].page
    /\ mainPc = "filter" => repos = srcRepos

-----------------------------------------------------------------------------
(* the batches of a push *)

IsBatch(p) == p.kind = "batch"

IsSingle(p) == p.kind = "single"

\* the batch pushes a job has invoked
Batches(job) == SeqFilter(IsBatch, job.pushes)

TimedOut(job) == \E n \in 1..Len(job.pushes) : job.pushes[n].rc = -1

\* the loop over the batches of the job has ended
LoopEnded(job) ==
    /\ job.valid_refs # <<>>
    /\ job.pc \in {"finally", "cleanup", "done"}
    /\ ~TimedOut(job)

\* ceil(n / BatchSize)
BatchCount(n) == (n + BatchSize - 1) \div BatchSize

\* the n-th slice of BatchSize refs
Slice(refs, n) ==
    SubSeq(refs, (n - 1) * BatchSize + 1, Min(n * BatchSize, Len(refs)))

\* C27: the batch pushes cut the transferable refs into consecutive slices:
\* the n-th batch push invocation carries the refspecs ref:ref of the n-th
\* slice of 50 refs, every slice but the last is full, and when the loop has
\* ended without a timeout there was one batch push invocation per slice,
\* ceil(n/50) in all.
BatchesPartitionTheRefs ==
    \A j \in JobIds :
        LET job == jobs[j]
            batches == Batches(job)
        IN  /\ Len(batches) <= BatchCount(Len(job.valid_refs))
            /\ \A n \in 1..Len(batches) :
                   /\ batches[n].refspecs = SeqMap(RefSpec, Slice(job.valid_refs, n))
                   /\ Len(batches[n].refspecs) <= BatchSize
                   /\ n < BatchCount(Len(job.valid_refs)) =>
                          Len(batches[n].refspecs) = BatchSize
            /\ LoopEnded(job) => Len(batches) = BatchCount(Len(job.valid_refs))

\* the mirror with more branches than a batch holds was pushed in two
\* batches, the first of them full
PushedInTwoBatches ==
    \E j \in JobIds :
        /\ LoopEnded(jobs[j])
        /\ Len(jobs[j].valid_refs) = BatchSize + ManyExtra
        /\ Len(Batches(jobs[j])) = 2
        /\ Len(Batches(jobs[j])[1].refspecs) = BatchSize
        /\ Len(Batches(jobs[j])[2].refspecs) = ManyExtra

\* the single pushes that failed among the k invocations after the n-th
FailedSingles(job, n, k) ==
    {m \in 1..k : n + m <= Len(job.pushes) /\ job.pushes[n + m].rc # 0}

\* C28: a batch push that failed is followed by one single push of each ref
\* of the batch, in order and whatever the result of the others, and then by
\* the next batch; a batch push that succeeded is followed by the next batch
\* push, and no single push occurs anywhere else.
FailedBatchIsRetriedRefByRef ==
    \A j \in JobIds :
        LET job == jobs[j]
            pushes == job.pushes
        IN  /\ pushes # <<>> => IsBatch(pushes[1])
            /\ \A n \in 1..Len(pushes) :
                   IsBatch(pushes[n]) =>
                       LET k == IF pushes[n].rc = 0 THEN 0
                                ELSE Len(pushes[n].refspecs)
                       IN  /\ \A m \in 1..k :
                                  n + m <= Len(pushes) =>
                                      /\ IsSingle(pushes[n + m])
                                      /\ pushes[n + m].refspecs =
                                             <<pushes[n].refspecs[m]>>
                           /\ n + k + 1 <= Len(pushes) => IsBatch(pushes[n + k + 1])
                           /\ LoopEnded(job) => n + k <= Len(pushes)

\* the first batch push failed, two of its refs failed their single push,
\* every ref of the batch was pushed singly, and the second batch succeeded
FullBatchRetried ==
    \E j \in JobIds :
        LET job == jobs[j] IN
        /\ LoopEnded(job)
        /\ Len(job.pushes) = BatchSize + 2
        /\ job.pushes[1].rc = 1 /\ Len(job.pushes[1].refspecs) = BatchSize
        /\ Cardinality(FailedSingles(job, 1, BatchSize)) = 2
        /\ IsBatch(job.pushes[BatchSize + 2]) /\ job.pushes[BatchSize + 2].rc = 0

-----------------------------------------------------------------------------
(* the failed set of a fallback *)

\* a ref of the pull-request namespace
InPullNamespace(ref) == StartsWith(ref, PullPrefix)

\* the latest batch push of the job
LastBatch(job) ==
    CHOOSE n \in 1..Len(job.pushes) :
        /\ IsBatch(job.pushes[n])
        /\ \A m \in (n + 1)..Len(job.pushes) : IsSingle(job.pushes[m])

\* the refs whose single push failed since the latest batch push
FailedSince(job) ==
    {job.pushes[m].refspecs[1].src :
        m \in {q \in (LastBatch(job) + 1)..Len(job.pushes) : job.pushes[q].rc = 1}}

\* the fallback of the latest batch has pushed every ref of the batch
FallbackEnded(job) ==
    /\ ~TimedOut(job)
    /\ Len(job.pushes) =
           LastBatch(job) + Len(job.pushes[LastBatch(job)].refspecs)

\* the error record of line 297 was written for the failed set
Flagged(job) ==
    /\ job.errors # <<>>
    /\ job.errors[Len(job.errors)] = job.failed_refs

\* C29: in the fallback of a failed batch the failed set holds the refs
\* outside the pull-request namespace whose single push failed, and no ref
\* of that namespace; the batch gets its error record, naming the failed
\* set, exactly when a ref outside the namespace failed.
FailedSetIsTheOtherRefs ==
    \A j \in JobIds :
        LET job == jobs[j] IN
        (job.pushes # <<>> /\ IsSingle(job.pushes[Len(job.pushes)])) =>
            /\ Range(job.failed_refs) =
                   {ref \in FailedSince(job) : ~InPullNamespace(ref)}
            /\ FallbackEnded(job) =>
                   (Flagged(job) <=>
                       \E ref \in FailedSince(job) : ~InPullNamespace(ref))

-----------------------------------------------------------------------------
(* a mirror without a transferable ref *)

\* git for-each-ref succeeded for the job and the filter of line 263 left
\* nothing
NothingToTransfer(job) ==
    /\ job.get_refs_returncode = 0
    /\ job.valid_refs = <<>>

\* C30: when the mirror holds no transferable ref, no ref at all or
\* pull-request refs only, push_repository returns True and has invoked no
\* push.
NoRefsMeansSuccess ==
    \A j \in JobIds :
        LET job == jobs[j] IN
        (NothingToTransfer(job) /\ job.pc \in {"cleanup", "done"}) =>
            /\ job.success
            /\ job.pushes = <<>>

-----------------------------------------------------------------------------
(* timeouts *)

\* the jobs in which a push exceeded its timeout
TimedOutJobs == {j \in JobIds : TimedOut(jobs[j])}

\* C31: a clone that exceeds its timeout ends the job with False and without
\* an enumeration or a push; a batch push or a single push that exceeds its
\* timeout is the last push invocation of the job, push_repository returns
\* False, the job returns False and is counted failed.
TimeoutFailsTheStep ==
    /\ \A j \in JobIds :
           LET job == jobs[j] IN
           /\ (job.last.step = "clone" /\ job.last.answer = "timeout") =>
                  /\ job.pc = "done" /\ job.outcome = "False"
                  /\ job.enum_dirs = <<>> /\ job.pushes = <<>>
           /\ TimedOut(job) =>
                  /\ job.pushes[Len(job.pushes)].rc = -1
                  /\ \A n \in 1..(Len(job.pushes) - 1) : job.pushes[n].rc # -1
                  /\ job.pc \in {"finally", "cleanup", "done"}
                  /\ job.pc = "finally" => ~job.ret
                  /\ job.pc \in {"cleanup", "done"} => ~job.success
                  /\ job.pc = "done" => job.outcome = "False"
    /\ stats.failed >= Cardinality(TimedOutJobs \cap collected)

\* the clone of one job timed out, a single push of the fallback of another
\* job timed out, and both were counted failed
CloneAndSinglePushTimedOut ==
    \E j, h \in JobIds :
        /\ jobs[j].last.step = "clone" /\ jobs[j].last.answer = "timeout"
        /\ TimedOut(jobs[h])
        /\ IsSingle(jobs[h].pushes[Len(jobs[h].pushes)])
        /\ {j, h} \subseteq collected
        /\ stats.failed = 2

-----------------------------------------------------------------------------
(* the filters *)

\* the listed repositories of one name that pass the filters
PassingNamed(n) == {i \in PassingIndexes : srcRepos[i].name = n}

\* C32: the filters are applied once, after the listing and before the total
\* is set and the jobs are submitted: the jobs are the listed repositories
\* whose name is not excluded and, when an include-only set is given, is in
\* it, a name in both sets has no job, total_repos is the number of
\* repositories that pass, and nothing is checked, created, cloned or pushed
\* for a repository that does not pass.
OnlyPassingReposAreDispatched ==
    /\ mainPc \in {"list", "filter", "raised"} =>
           (jobs = <<>> /\ stats.total_repos = 0)
    /\ mainPc \in {"pool", "returned"} =>
           /\ stats.total_repos = Cardinality(PassingIndexes)
           /\ ~dry_run => Len(jobs) = Cardinality(PassingIndexes)
    /\ \A j \in JobIds :
           LET n == jobs[j].repo.name IN
           /\ n \notin exclude_repos
           /\ include_only = {} \/ n \in include_only
           /\ Cardinality({h \in JobIds : jobs[h].repo.name = n}) =
                  Cardinality(PassingNamed(n))
    /\ \A e \in fs : PassingNamed(e.repo) # {}

\* a repository named in both sets was listed, and the run ended after the
\* only job, that of the other repository, succeeded
NameInBothSetsLeftOut ==
    /\ mainPc = "returned"
    /\ \E i \in 1..Len(srcRepos) : srcRepos[i].name \in include_only \cap exclude_repos
    /\ Len(jobs) = 1
    /\ jobs[1].outcome = "True"
    /\ stats.total_repos = 1

-----------------------------------------------------------------------------
(* who writes the counters *)

\* the number of results counted
ResultsCounted(s) == s.successful + s.failed

\* C33: the counters are written by the orchestrator only: no step of a job
\* changes them, and a change made while the pool runs is made for one
\* finished job that was not counted before and adds one to successful or to
\* failed according to that job's result, so that no completion is lost
\* whatever the order in which the jobs finish.
OnlyOrchestratorCounts ==
    [][/\ jobs' # jobs /\ jobs # <<>> => stats' = stats
       /\ (stats' # stats /\ mainPc = "pool") =>
              \E j \in JobIds \ collected :
                  /\ collected' = collected \cup {j}
                  /\ jobs[j].pc = "done"
                  /\ stats' = IF jobs[j].outcome = "True"
                              THEN [stats EXCEPT !.successful = @ + 1]
                              ELSE [stats EXCEPT !.failed = @ + 1]
       /\ ResultsCounted(stats') = Cardinality(collected')
       /\ mainPc' = "returned" /\ ~dry_run =>
              /\ stats'.successful =
                     Cardinality({j \in JobIds : jobs'[j].outcome = "True"})
              /\ ResultsCounted(stats') = stats'.total_repos
      ]_vars

\* the second job submitted finished and was counted before the first, with
\* another result
CountedOutOfOrder ==
    /\ Len(jobs) >= 2
    /\ 2 \in collected /\ 1 \notin collected
    /\ jobs[1].pc = "done"
    /\ jobs[1].outcome # jobs[2].outcome

-----------------------------------------------------------------------------
(* what the cleanup tool deletes *)

\* the names the organisations of the cleanup model hold at the start
ListedNames ==
    {MixedName(i) : i \in 1..(PerPage + CleanupExtra)}
        \cup {PlainOrg[i].name : i \in 1..Len(PlainOrg)}

\* C34: every delete request of the cleanup tool names a listed repository
\* whose name starts with the configured prefix, on whatever page of the
\* listing it was.
DeletesOnlyPrefixedNames ==
    \A n \in 1..Len(deletes) :
        /\ StartsWith(deletes[n].name, tool.prefix)
        /\ deletes[n].name \in ListedNames
        /\ \A m \in 1..Len(deletes) : deletes[m].name = deletes[n].name => m = n

\* a confirmed cleanup with the prefix bk- went through a listing of two
\* pages and requested the deletion of the matches of both
DeletedFromBothPages ==
    /\ tool.pc = "returned"
    /\ tool.prefix = CleanupPrefix
    /\ Len(deletes) = Cardinality({i \in 1..(PerPage + CleanupExtra) : i % 3 = 1})
    /\ \E n \in 1..Len(deletes) : deletes[n].name = MixedName(PerPage + 3)
    /\ \E n \in 1..Len(deletes) : deletes[n].name = MixedName(1)

-----------------------------------------------------------------------------
(* a job among other jobs *)

\* the job got as far as enumerating refs, which takes a destination found
\* or created, a clone and a verification that succeeded, git for-each-ref
\* ended with status 0 and so did every git push
OwnCallsSucceeded(job) ==
    /\ job.enum_dirs # <<>>
    /\ job.get_refs_returncode = 0
    /\ \A n \in 1..Len(job.pushes) : job.pushes[n].rc = 0

\* C35: a job all of whose own calls succeeded returns True, whatever the
\* other jobs do meanwhile.
OwnSuccessMeansTrue ==
    \A j \in JobIds :
        (jobs[j].pc = "done" /\ OwnCallsSucceeded(jobs[j])) =>
            jobs[j].outcome = "True"

-----------------------------------------------------------------------------
(* the batches after a failed batch *)

\* C36: when the fallback of a failed batch has pushed its last ref without a
\* timeout, the loop goes on with the next slice of refs if there is one and
\* otherwise ends with True, whatever the single pushes returned: no batch
\* after a failed one is left out.
FailedBatchDoesNotStopTheLoop ==
    \A j \in JobIds :
        LET job == jobs[j]
            done == Len(Batches(job))
        IN  (/\ job.pushes # <<>>
             /\ IsSingle(job.pushes[Len(job.pushes)])
             /\ FallbackEnded(job)) =>
                IF done < BatchCount(Len(job.valid_refs))
                THEN job.pc = "batch" /\ job.i = done * BatchSize
                ELSE /\ job.pc \in {"finally", "cleanup", "done"}
                     /\ job.pc = "finally" => job.ret

\* the first batch failed and so did one of its single pushes; the second
\* batch was pushed all the same, failed too, and was retried to its end
SecondBatchPushedAfterFailures ==
    \E j \in JobIds :
        LET job == jobs[j] IN
        /\ LoopEnded(job)
        /\ Len(Batches(job)) = 2
        /\ Batches(job)[1].rc = 1 /\ Batches(job)[2].rc = 1
        /\ Cardinality(FailedSingles(job, 1, BatchSize)) = 1
        /\ Len(job.pushes) = BatchSize + ManyExtra + 2

-----------------------------------------------------------------------------
(* the wait of a rate-limited listing *)

\* C37: the wait computed for a rate-limit response without quota,
\* reset time - current time + 1, is never negative, also for a reset time
\* in the past: time.sleep never refuses it, and a listing is aborted only
\* by a request that failed.
WaitIsNeverNegative ==
    /\ \A n \in 1..Len(requests) : requests[n].outcome # "sleep_error"
    /\ (mainPc = "raised" /\ requests # <<>>) =>
           requests[Len(requests)].outcome = "error"

-----------------------------------------------------------------------------
(* the working directory after the run *)

\* C38: when run_backup has returned, the working directory of the process
\* is the one it was at entry: every push_repository put back the directory
\* of the start of the run.
WorkingDirectoryRestored ==
    /\ mainPc = "returned" => cwd = StartDir
    /\ \A j \in JobIds :
           (jobs[j].pc \in {"cleanup", "done"} /\ jobs[j].original_cwd # <<>>) =>
               jobs[j].original_cwd = StartDir

-----------------------------------------------------------------------------
(* the skipped counter *)

\* C39: the counter skipped is 0 in every state, and a repository the
\* filters removed is counted nowhere: the four counters together never
\* exceed twice the number of repositories that pass the filters.
SkippedStaysZero ==
    /\ stats.skipped = 0
    /\ stats.total_repos <= Cardinality(PassingIndexes)
    /\ stats.successful + stats.failed <= Cardinality(PassingIndexes)

\* a run that was no dry run returned after the exclude set had removed a
\* listed repository and the other one had been backed up
ExcludedRepoCountedNowhere ==
    /\ mainPc = "returned"
    /\ ~dry_run
    /\ include_only = {}
    /\ \E i \in 1..Len(srcRepos) : srcRepos[i].name \in exclude_repos
    /\ stats.total_repos = 1
    /\ stats.successful = 1
    /\ stats.skipped = 0

-----------------------------------------------------------------------------
(* a listing of the cleanup tool that fails *)

\* C40: when the request of a page fails, get_repositories of the cleanup
\* tool returns the empty list, whatever it had collected from the pages
\* before, and cleanup_backups returns without a prompt and without a delete
\* request, and without raising.
FailedListingDeletesNothing ==
    tool.failed_page > 0 =>
        /\ tool.repos = <<>>
        /\ tool.pc = "returned"
        /\ tool.confirm = ""
        /\ deletes = <<>>
        /\ tool.successful = 0 /\ tool.failed = 0

\* the first page held repositories with the prefix, the request of the
\* second page failed, and the tool, which was to delete, returned
SecondPageFailed ==
    /\ tool.failed_page = 2
    /\ tool.prefix = CleanupPrefix
    /\ ~tool.dry_run
    /\ Len(orgRepos) = PerPage + CleanupExtra
    /\ tool.pc = "returned"

=============================================================================
